---------------------------- MODULE Spec2Model ----------------------------
(***************************************************************************)
(* torrent_mover.py: classification of the video files of a download job   *)
(* (movie, movie with sample, episode, season, series), relocation of the  *)
(* files into the film / series layout, and removal of the finished jobs.  *)
(*                                                                         *)
(* File names are sequences of one-character strings, so that the regular  *)
(* expressions, strip() and the two-digit rendering of the season and      *)
(* episode numbers are computed as the code computes them.                 *)
(***************************************************************************)
EXTENDS Integers, Sequences, FiniteSets, TLC

(***************************************************************************)
(* Bounds of the model.                                                    *)
(***************************************************************************)
MaxTorrents == 2
MaxFiles == 3
MaxSize == 21
MaxCalls == 2

(***************************************************************************)
(* Characters.                                                             *)
(***************************************************************************)
UpperChars == <<"A","B","C","D","E","F","G","H","I","J","K","L","M",
                "N","O","P","Q","R","S","T","U","V","W","X","Y","Z">>
LowerChars == <<"a","b","c","d","e","f","g","h","i","j","k","l","m",
                "n","o","p","q","r","s","t","u","v","w","x","y","z">>
DigitChars == <<"0","1","2","3","4","5","6","7","8","9">>

\* re.IGNORECASE: both sides of a comparison are lower-cased
Lower(c) ==
    IF \E k \in 1..Len(UpperChars) : UpperChars[k] = c
    THEN LowerChars[CHOOSE k \in 1..Len(UpperChars) : UpperChars[k] = c]
    ELSE c

IsDigit(c) == \E k \in 1..Len(DigitChars) : DigitChars[k] = c

DigitVal(c) == (CHOOSE k \in 1..Len(DigitChars) : DigitChars[k] = c) - 1

\* int(s) of a string of one or two digits
ToInt(ds) == IF Len(ds) = 1 THEN DigitVal(ds[1])
             ELSE 10 * DigitVal(ds[1]) + DigitVal(ds[2])

\* f"{n:02d}" for 0 <= n <= 99
Pad2(n) == <<DigitChars[(n \div 10) + 1], DigitChars[(n % 10) + 1]>>

Slice(s, a, b) == [k \in 1..(IF b >= a THEN b - a + 1 ELSE 0) |-> s[a + k - 1]]

\* STRIP_CHARS = ' ._-'
STRIP_CHARS == {" ", ".", "_", "-"}

RECURSIVE LStrip(_)
LStrip(s) == IF s # <<>> /\ s[1] \in STRIP_CHARS THEN LStrip(Tail(s)) ELSE s

RECURSIVE RStrip(_)
RStrip(s) == IF s # <<>> /\ s[Len(s)] \in STRIP_CHARS
             THEN RStrip(Slice(s, 1, Len(s) - 1)) ELSE s

\* str.strip(STRIP_CHARS)
Strip(s) == RStrip(LStrip(s))

\* os.path.basename: what follows the last "/"
Basename(p) ==
    LET slashes == {k \in 1..Len(p) : p[k] = "/"}
    IN  IF slashes = {} THEN p
        ELSE Slice(p, (CHOOSE k \in slashes : \A j \in slashes : j <= k) + 1, Len(p))

\* os.path.splitext(p)[1]: from the last "." of the base name on, when a
\* character other than "." precedes it in the base name; else empty
SplitExt(p) ==
    LET b    == Basename(p)
        dots == {k \in 1..Len(b) : b[k] = "."}
        last == CHOOSE k \in dots : \A j \in dots : j <= k
    IN  IF dots = {} THEN <<>>
        ELSE IF \E j \in 1..(last - 1) : b[j] # "." THEN Slice(b, last, Len(b))
        ELSE <<>>

VIDEO_FILE_EXTENSIONS ==
    { <<".", "m", "p", "4">>,
      <<".", "m", "k", "v">>,
      <<".", "a", "v", "i">> }

(***************************************************************************)
(* SERIES_PATTERNS, searched in the base name with re.IGNORECASE.  Every   *)
(* pattern starts with a lazy group of any characters and ends with a      *)
(* greedy one, so a search that succeeds succeeds from position 1, with    *)
(* the shortest first group the rest of the pattern allows; the greedy     *)
(* one-or-two digits and the optional character try their longer form      *)
(* first.  Below, LAZY is the first group and REST the last.               *)
(***************************************************************************)
CharAt(b, p, c) == p >= 1 /\ p <= Len(b) /\ Lower(b[p]) = c

DigitsAt(b, p, n) == p >= 1 /\ p + n - 1 <= Len(b) /\ \A k \in p..(p + n - 1) : IsDigit(b[k])

WordAt(b, p, w) == p >= 1 /\ p + Len(w) - 1 <= Len(b)
                   /\ \A k \in 1..Len(w) : Lower(b[p + k - 1]) = w[k]

NoMatch == [matched |-> FALSE]

Groups(g1, g2, g3) == [matched |-> TRUE, g1 |-> g1, g2 |-> g2, g3 |-> g3]

Least(S) == CHOOSE i \in S : \A j \in S : i <= j

\* SERIES_PATTERNS[0]: LAZY S (1-2 digits) E (2 digits) REST
P1At(b, i, n) == /\ CharAt(b, i, "s") /\ DigitsAt(b, i + 1, n)
                 /\ CharAt(b, i + 1 + n, "e") /\ DigitsAt(b, i + 2 + n, 2)

P1Starts(b) == {i \in 1..Len(b) : P1At(b, i, 2) \/ P1At(b, i, 1)}

\* the groups when the first group ends before i and the season has n digits
P1Groups(b, i, n) ==
    Groups(Slice(b, 1, i - 1), Slice(b, i + 1, i + n), Slice(b, i + 2 + n, i + 3 + n))

P1From(b, i) == P1Groups(b, i, IF P1At(b, i, 2) THEN 2 ELSE 1)

Pattern1(b) == IF P1Starts(b) = {} THEN NoMatch ELSE P1From(b, Least(P1Starts(b)))

\* SERIES_PATTERNS[1]: LAZY [? (1-2 digits) x (2 digits) ]? REST
P2At(b, p, n) == DigitsAt(b, p, n) /\ CharAt(b, p + n, "x") /\ DigitsAt(b, p + n + 1, 2)

\* where the digits start when the first group ends before i: after the bracket, if any
P2Digits(b, i) == IF CharAt(b, i, "[") THEN i + 1 ELSE i

P2Starts(b) == {i \in 1..Len(b) : P2At(b, P2Digits(b, i), 2) \/ P2At(b, P2Digits(b, i), 1)}

P2Groups(b, i, p, n) ==
    Groups(Slice(b, 1, i - 1), Slice(b, p, p + n - 1), Slice(b, p + n + 1, p + n + 2))

P2From(b, i) ==
    P2Groups(b, i, P2Digits(b, i), IF P2At(b, P2Digits(b, i), 2) THEN 2 ELSE 1)

Pattern2(b) == IF P2Starts(b) = {} THEN NoMatch ELSE P2From(b, Least(P2Starts(b)))

\* SERIES_PATTERNS[2]: LAZY Season .? (1-2 digits) lazy-gap Episode .? (1-2 digits) REST
SeasonWord  == <<"s","e","a","s","o","n">>
EpisodeWord == <<"e","p","i","s","o","d","e">>

\* "Episode" at pe, then the optional character (c = 1: taken) and a digit
P3EpisodeAt(b, pe, c) ==
    WordAt(b, pe, EpisodeWord) /\ pe + 7 + c - 1 <= Len(b) /\ DigitsAt(b, pe + 7 + c, 1)

\* where "Episode" and what follows it match, from q on
P3Episodes(b, q) == {pe \in q..Len(b) : P3EpisodeAt(b, pe, 1) \/ P3EpisodeAt(b, pe, 0)}

\* "Season" at i, the optional character (a = 1: taken), n season digits, the rest
P3At(b, i, a, n) ==
    /\ WordAt(b, i, SeasonWord) /\ i + 6 + a - 1 <= Len(b)
    /\ DigitsAt(b, i + 6 + a, n) /\ P3Episodes(b, i + 6 + a + n) # {}

P3Starts(b) == {i \in 1..Len(b) : \E a \in {0, 1}, n \in {1, 2} : P3At(b, i, a, n)}

\* the groups: the season digits at ps (n of them), the episode digits at pd
P3Groups(b, i, ps, n, pd) ==
    Groups(Slice(b, 1, i - 1), Slice(b, ps, ps + n - 1),
           Slice(b, pd, pd + (IF DigitsAt(b, pd, 2) THEN 2 ELSE 1) - 1))

\* greedy: the optional character before the episode digits is taken when that matches
P3Episode(b, i, ps, n, pe) ==
    P3Groups(b, i, ps, n, pe + 7 + (IF P3EpisodeAt(b, pe, 1) THEN 1 ELSE 0))

\* lazy: the first "Episode" the rest matches at
P3Season(b, i, ps, n) == P3Episode(b, i, ps, n, Least(P3Episodes(b, ps + n)))

\* greedy: two season digits when that matches
P3Optional(b, i, a) == P3Season(b, i, i + 6 + a, IF P3At(b, i, a, 2) THEN 2 ELSE 1)

\* greedy: the optional character after "Season" is taken when that matches
P3From(b, i) == P3Optional(b, i, IF P3At(b, i, 1, 2) \/ P3At(b, i, 1, 1) THEN 1 ELSE 0)

Pattern3(b) == IF P3Starts(b) = {} THEN NoMatch ELSE P3From(b, Least(P3Starts(b)))

SERIES_PATTERNS == <<1, 2, 3>>

ApplyPattern(k, b) == CASE k = 1 -> Pattern1(b)
                        [] k = 2 -> Pattern2(b)
                        [] OTHER -> Pattern3(b)

\* the dictionary get_episode_data returns for a match
EpisodeData(filename, match) ==
    [matched     |-> TRUE,
     series_name |-> Strip(match.g1),
     season_num  |-> Pad2(ToInt(match.g2)),
     episode_num |-> Pad2(ToInt(match.g3)),
     filename    |-> filename]

\* get_episode_data: the first pattern that matches decides; False when none does
RECURSIVE FirstMatch(_, _)
FirstMatch(filename, k) ==
    IF k > Len(SERIES_PATTERNS) THEN [matched |-> FALSE]
    ELSE IF ApplyPattern(SERIES_PATTERNS[k], Basename(filename)).matched
    THEN EpisodeData(filename, ApplyPattern(SERIES_PATTERNS[k], Basename(filename)))
    ELSE FirstMatch(filename, k + 1)

MatchPatterns(filename) == FirstMatch(filename, 1)

(***************************************************************************)
(* The file names of the model.                                            *)
(***************************************************************************)
\* "A.S01E01.mkv"
NameA11 == <<"A",".","S","0","1","E","0","1",".","m","k","v">>
\* "d/A_s1e02.avi"
NameA12 == <<"d","/","A","_","s","1","e","0","2",".","a","v","i">>
\* "A Season 2 Episode 1.mkv"
NameA21 == <<"A"," ","S","e","a","s","o","n"," ","2"," ","E","p","i","s","o","d","e"," ","1",
             ".","m","k","v">>
\* "B.[1x01].mp4"
NameB11 == <<"B",".","[","1","x","0","1","]",".","m","p","4">>
\* "d/film.mkv"
NameFilm == <<"d","/","f","i","l","m",".","m","k","v">>
\* "sample.mkv"
NameSample == <<"s","a","m","p","l","e",".","m","k","v">>
\* "film.nfo"
NameNfo == <<"f","i","l","m",".","n","f","o">>

\* the k-th name of a list whose sizes are what matters: "A.S01E0k.mkv", which
\* matches a pattern, or "fk.mkv", which matches none
EpisodeName(k) == <<"A",".","S","0","1","E","0",DigitChars[k + 1],".","m","k","v">>

OtherName(k) == <<"f",DigitChars[k + 1],".","m","k","v">>

SizedName(matching, k) == IF matching THEN EpisodeName(k) ELSE OtherName(k)

\* "film.mkv", the base name of NameFilm
NameFilmBase == <<"f","i","l","m",".","m","k","v">>

KnownNames == {NameA11, NameA12, NameA21, NameB11, NameFilm, NameSample, NameNfo,
               NameFilmBase}
              \cup {SizedName(matching, k) : matching \in BOOLEAN, k \in 1..(MaxFiles + 1)}

\* get_episode_data is a function of the file name alone: its results for the
\* names of the model are computed once
EpisodeTable == {<<n, MatchPatterns(n)>> : n \in KnownNames}

get_episode_data(filename) ==
    IF filename \in KnownNames
    THEN (CHOOSE p \in EpisodeTable : p[1] = filename)[2]
    ELSE MatchPatterns(filename)

(***************************************************************************)
(* The classifier.  A video file is [name, size]; an exception raised by   *)
(* a function is the field "raised" of its result ("none" when it          *)
(* returns).                                                               *)
(***************************************************************************)
\* get_video_files: the files whose extension is a video extension, in order
get_video_files(fs) ==
    SelectSeq(fs, LAMBDA file_info : SplitExt(file_info.name) \in VIDEO_FILE_EXTENSIONS)

\* None: no series name is this one-element sequence, a name being made of characters
NoneValue == <<"None">>

\* the ordered dict seasons: a sequence of [season, episodes], keys in insertion order
HasSeason(seasons, key) == \E k \in 1..Len(seasons) : seasons[k].season = key

\* seasons[key] = [episode_data] whether or not the key is there
ReplaceEpisodes(seasons, key, episode_data) ==
    IF HasSeason(seasons, key)
    THEN [k \in 1..Len(seasons) |->
            IF seasons[k].season = key
            THEN [seasons[k] EXCEPT !.episodes = <<episode_data>>]
            ELSE seasons[k]]
    ELSE Append(seasons, [season |-> key, episodes |-> <<episode_data>>])

AppendEpisode(seasons, key, episode_data) ==
    IF HasSeason(seasons, key)
    THEN [k \in 1..Len(seasons) |->
            IF seasons[k].season = key
            THEN [seasons[k] EXCEPT !.episodes = Append(@, episode_data)]
            ELSE seasons[k]]
    ELSE Append(seasons, [season |-> key, episodes |-> <<episode_data>>])

\* the loop of get_series_data from file i on; subscripting the False that
\* get_episode_data returns for a file that matches no pattern raises TypeError
RECURSIVE SeriesLoop(_, _, _, _)
RECURSIVE SeriesStep(_, _, _, _, _)
SeriesLoop(video_files, i, series_name, seasons) ==
    IF i > Len(video_files)
    THEN IF Len(seasons) > 0
         THEN [raised |-> "none", ok |-> TRUE, series_name |-> series_name,
               seasons |-> seasons, seasons_count |-> Len(seasons)]
         ELSE [raised |-> "none", ok |-> FALSE]
    ELSE SeriesStep(video_files, i, series_name, seasons,
                    get_episode_data(video_files[i].name))

SeriesStep(video_files, i, series_name, seasons, episode_data) ==
    IF ~episode_data.matched
    THEN [raised |-> "TypeError", ok |-> FALSE]
    ELSE IF series_name # NoneValue /\ episode_data.series_name # series_name
    THEN [raised |-> "none", ok |-> FALSE]
    ELSE SeriesLoop(video_files, i + 1, episode_data.series_name,
                    AppendEpisode(seasons, episode_data.season_num, episode_data))

get_series_data(video_files) == SeriesLoop(video_files, 1, NoneValue, <<>>)

\* the comparison with > in place of >=
SizeDiffAbove90(s0, s1) ==
    LET num == (s1 - s0) * 100
    IN  IF num < 0 THEN (0 - num) > 90 * s0
        ELSE IF num > 100 * s0 THEN num > 900 * s0
        ELSE num > 90 * s0

\* the comparison without the division by 10
SizeDiffUnscaled(s0, s1) ==
    LET num == (s1 - s0) * 100
    IN  IF num < 0 THEN (0 - num) >= 90 * s0 ELSE num >= 90 * s0

\* size_diff >= 90.0 after the sign flip or the division by 10, for sizes s0 > 0;
\* size_diff = (s1 - s0) / s0 * 100 is compared after multiplying through by s0
SizeDiffAtLeast90(s0, s1) ==
    LET num == (s1 - s0) * 100
    IN  IF num < 0 THEN (0 - num) >= 90 * s0
        ELSE IF num > 100 * s0 THEN num >= 900 * s0
        ELSE num >= 90 * s0

\* is_movie_with_sample: the division raises ZeroDivisionError when the first size is 0
is_movie_with_sample(video_files) ==
    IF Len(video_files) = 2
    THEN IF video_files[1].size = 0
         THEN [raised |-> "ZeroDivisionError", value |-> FALSE]
         ELSE [raised |-> "none",
               value  |-> SizeDiffAtLeast90(video_files[1].size, video_files[2].size)]
    ELSE [raised |-> "none", value |-> FALSE]

NoData == [ok |-> FALSE]

Typed(t, d) == [raised |-> "none", type |-> t, data |-> d]

Raised(e) == [raised |-> e, type |-> "NONE", data |-> NoData]

\* what get_torrent_type makes of the result of get_series_data
SeriesType(series_data) ==
    IF series_data.raised # "none" THEN Raised(series_data.raised)
    ELSE IF series_data.ok
    THEN IF series_data.seasons_count = 1 THEN Typed("SEASON", series_data)
         ELSE Typed("SERIES", series_data)
    ELSE Typed("UNKNOWN", NoData)

\* what get_torrent_type makes of the result of is_movie_with_sample
SampleType(video_files, sample) ==
    IF sample.raised # "none" THEN Raised(sample.raised)
    ELSE IF sample.value THEN Typed("MOVIE_WITH_SAMPLE", NoData)
    ELSE SeriesType(get_series_data(video_files))

\* what get_torrent_type makes of the one file of a torrent
SingleType(episode_data) ==
    IF episode_data.matched THEN Typed("EPISODE", episode_data) ELSE Typed("MOVIE", NoData)

get_torrent_type(video_files) ==
    IF Len(video_files) = 1
    THEN SingleType(get_episode_data(video_files[1].name))
    ELSE SampleType(video_files, is_movie_with_sample(video_files))

(***************************************************************************)
(* The destination file system: the season directories that exist (dirs)   *)
(* and the files that exist in the film root and the season directories    *)
(* (files).  A directory is [root, series_name, season]; a file is         *)
(* [dir, base].                                                            *)
(***************************************************************************)
SEASON_PREFIX == <<"s">>

DIR_FILM == [root |-> "DIR_FILM", series_name |-> <<>>, season |-> <<>>]

\* os.path.join(DIR_SERIES, series_name, SEASON_PREFIX + season_num)
SeasonPath(series_name, season_num) ==
    [root |-> "DIR_SERIES", series_name |-> series_name, season |-> SEASON_PREFIX \o season_num]

\* os.path.join(target_dir, os.path.basename(source_file))
TargetPath(source_file, target_dir) == [dir |-> target_dir, base |-> Basename(source_file)]

\* is_dry_run
is_dry_run(dry) == dry

\* get_season_dir; mk is what os.makedirs does when it is called: "ok" or "raise"
get_season_dir(ds, dry, series_name, season_num, mk) ==
    LET season_dir == SeasonPath(series_name, season_num)
    IN  IF season_dir \notin ds /\ ~is_dry_run(dry)
        THEN IF mk = "ok"
             THEN [raised |-> "none", season_dir |-> season_dir, dirs |-> ds \cup {season_dir},
                   created |-> TRUE]
             ELSE [raised |-> "OSError", season_dir |-> season_dir, dirs |-> ds,
                   created |-> FALSE]
        ELSE [raised |-> "none", season_dir |-> season_dir, dirs |-> ds, created |-> FALSE]

\* move_torrent_file without the test of os.path.exists
move_torrent_file_always(fl, dry, source_file, target_dir, cp) ==
    LET target == TargetPath(source_file, target_dir)
    IN  IF ~is_dry_run(dry)
        THEN CASE cp = "ok"      -> [ok |-> TRUE, copied |-> TRUE, files |-> fl \cup {target}]
               [] cp = "partial" -> [ok |-> FALSE, copied |-> TRUE, files |-> fl \cup {target}]
               [] OTHER          -> [ok |-> FALSE, copied |-> TRUE, files |-> fl]
        ELSE [ok |-> TRUE, copied |-> FALSE, files |-> fl]

\* move_torrent_file; cp is what copyfile does when it is called: "ok", "fail" (it
\* raises and leaves no target) or "partial" (it raises after creating the target)
move_torrent_file(fl, dry, source_file, target_dir, cp) ==
    LET target == TargetPath(source_file, target_dir)
    IN  IF target \notin fl
        THEN IF ~is_dry_run(dry)
             THEN CASE cp = "ok"      -> [ok |-> TRUE, copied |-> TRUE, files |-> fl \cup {target}]
                    [] cp = "partial" -> [ok |-> FALSE, copied |-> TRUE, files |-> fl \cup {target}]
                    [] OTHER          -> [ok |-> FALSE, copied |-> TRUE, files |-> fl]
             ELSE [ok |-> TRUE, copied |-> FALSE, files |-> fl]
        ELSE [ok |-> TRUE, copied |-> FALSE, files |-> fl]

(***************************************************************************)
(* main.  The state of a run is a record of its locals and of what it      *)
(* acts on; each step below is a function of that state and of what the    *)
(* environment answers at that step.                                       *)
(***************************************************************************)
TORRENT_STATUS == {"check pending", "checking", "downloading", "download pending",
                   "seeding", "seed pending", "stopped"}

TORRENT_COMPLETE_STATUS == {"seeding", "stopped"}

NoTorrent == [id |-> 0, status |-> "none", is_finished |-> FALSE]

\* the relocation of one file: to the film root, or to the season directory
FilmItem(filename) ==
    [filename |-> filename, film |-> TRUE, series_name |-> <<>>, season_num |-> <<>>]

EpisodeItem(episode) ==
    [filename |-> episode.filename, film |-> FALSE,
     series_name |-> episode.series_name, season_num |-> episode.season_num]

\* the seasons walked from the last key to the first
RECURSIVE SeasonItemsReversed(_)
SeasonItemsReversed(seasons) ==
    IF seasons = <<>> THEN <<>>
    ELSE SeasonItemsReversed(Tail(seasons))
         \o [k \in 1..Len(seasons[1].episodes) |-> EpisodeItem(seasons[1].episodes[k])]

\* for season in seasons: for episode in seasons[season]
RECURSIVE SeasonItems(_)
SeasonItems(seasons) ==
    IF seasons = <<>> THEN <<>>
    ELSE [k \in 1..Len(seasons[1].episodes) |-> EpisodeItem(seasons[1].episodes[k])]
         \o SeasonItems(Tail(seasons))

\* the relocations main makes for a torrent of each type, in order
Relocations(torrent_type, type_data, vfs) ==
    CASE torrent_type = "MOVIE" -> <<FilmItem(vfs[1].name)>>
      [] torrent_type = "MOVIE_WITH_SAMPLE" ->
            IF vfs[1].size < vfs[2].size THEN <<FilmItem(vfs[2].name)>>
            ELSE <<FilmItem(vfs[1].name)>>
      [] torrent_type = "EPISODE" -> <<EpisodeItem(type_data)>>
      [] torrent_type \in {"SEASON", "SERIES"} -> SeasonItems(type_data.seasons)
      [] OTHER -> <<>>

\* the state after construction; dry is DRY_RUN, fl and ds the destination
InitialRun(dry, fl, ds) ==
    [pc |-> "start", DRY_RUN |-> dry, count |-> 0, torrent |-> NoTorrent,
     video_files |-> <<>>, torrent_type |-> "NONE", type_data |-> NoData,
     pending |-> <<>>, moved |-> FALSE, attempts |-> <<>>, ids_to_remove |-> <<>>,
     files |-> fl, dirs |-> ds, removed |-> <<>>, exc |-> "none", ret |-> "none"]

Raise(s, e) == [s EXCEPT !.pc = "raised", !.exc = e]

\* Client(...): the connection succeeds, or main logs and returns 0
main_connect(s, connected) ==
    IF connected THEN [s EXCEPT !.pc = "loop"]
    ELSE [s EXCEPT !.pc = "done", !.ret = 0]

\* the next torrent of get_torrents(): moved = False, and the status test
main_next_torrent(s, status) ==
    [s EXCEPT !.count = @ + 1,
              !.torrent = [id |-> s.count + 1, status |-> status, is_finished |-> FALSE],
              !.moved = FALSE, !.video_files = <<>>, !.torrent_type = "NONE",
              !.type_data = NoData, !.pending = <<>>, !.attempts = <<>>,
              !.pc = IF status \in TORRENT_COMPLETE_STATUS THEN "check" ELSE "loop"]

\* what main does with the type of the torrent: an exception ends the run
Classified(s, vfs, t) ==
    IF t.raised # "none" THEN Raise([s EXCEPT !.video_files = vfs], t.raised)
    ELSE [s EXCEPT !.video_files = vfs, !.torrent_type = t.type, !.type_data = t.data,
                   !.pending = Relocations(t.type, t.data, vfs),
                   !.pc = IF Relocations(t.type, t.data, vfs) = <<>> THEN "finish"
                          ELSE "relocate"]

CheckVideoFiles(s, vfs) ==
    IF Len(vfs) = 0 THEN [s EXCEPT !.pc = "loop"]
    ELSE Classified(s, vfs, get_torrent_type(vfs))

\* get_video_files(torrent.files()) and get_torrent_type
main_check(s, fs) == CheckVideoFiles(s, get_video_files(fs))

\* the loops without the break
LoopGoesOnAfterFailure(ok, rest) == rest # <<>>

\* whether the loops over the seasons and episodes go on after a relocation
LoopGoesOn(ok, rest) == ok /\ rest # <<>>

\* the call of move_torrent_file as the history keeps it
Call(fl, source_file, target_dir, created, mv) ==
    [filename |-> source_file, target_dir |-> target_dir,
     existed |-> TargetPath(source_file, target_dir) \in fl,
     created |-> created, copied |-> mv.copied, ok |-> mv.ok]

\* moved = move_torrent_file(...), and the break when it failed
Moved(s, item, sd, mv) ==
    [s EXCEPT !.dirs = sd.dirs, !.files = mv.files, !.moved = mv.ok,
              !.attempts = Append(@, Call(s.files, item.filename, sd.season_dir,
                                          sd.created, mv)),
              !.pending = Tail(@),
              !.pc = IF LoopGoesOn(mv.ok, Tail(s.pending)) THEN "relocate" ELSE "finish"]

\* the target directory is known: an exception of get_season_dir ends the run
InDirectory(s, item, sd, cp) ==
    IF sd.raised # "none" THEN Raise(s, sd.raised)
    ELSE Moved(s, item, sd,
               move_torrent_file(s.files, s.DRY_RUN, item.filename, sd.season_dir, cp))

FilmDir(ds) == [raised |-> "none", season_dir |-> DIR_FILM, dirs |-> ds, created |-> FALSE]

RelocateItem(s, item, mk, cp) ==
    InDirectory(s, item,
                IF item.film THEN FilmDir(s.dirs)
                ELSE get_season_dir(s.dirs, s.DRY_RUN, item.series_name, item.season_num, mk),
                cp)

\* one relocation: get_season_dir for an episode, then move_torrent_file; a
\* failure leaves the loops (break), and what is left in pending is never made
main_relocate(s, mk, cp) == RelocateItem(s, Head(s.pending), mk, cp)

\* the removal test without torrent.is_finished
ShouldRemoveWhenMoved(moved_, is_finished) == moved_

\* if moved and torrent.is_finished: ids_to_remove.append(torrent.id)
ShouldRemove(moved_, is_finished) == moved_ /\ is_finished

main_finish(s, is_finished) ==
    [s EXCEPT !.torrent.is_finished = is_finished,
              !.ids_to_remove = IF ShouldRemove(s.moved, is_finished)
                                THEN Append(@, s.torrent.id) ELSE @,
              !.pc = "loop"]

\* the end of get_torrents()
main_end_loop(s) == [s EXCEPT !.pc = "remove"]

\* whether remove_torrent is called
SendsRemoval(ids, dry) == Len(ids) > 0 /\ ~is_dry_run(dry)

\* the removal of the finished torrents and return 0; rm is what remove_torrent
\* does when it is called: "ok" or "raise"
main_remove(s, rm) ==
    IF SendsRemoval(s.ids_to_remove, s.DRY_RUN)
    THEN IF rm = "ok"
         THEN [s EXCEPT !.removed = Append(@, s.ids_to_remove), !.pc = "done", !.ret = 0]
         ELSE Raise(s, "TransmissionError")
    ELSE [s EXCEPT !.pc = "done", !.ret = 0]


(***************************************************************************)
(* The inputs: file names, the files a torrent may hold, the destination   *)
(* a run may start from.                                                   *)
(***************************************************************************)
File(name, size) == [name |-> name, size |-> size]

\* the files of the torrents: episodes of two seasons of A (one of them an empty
\* file) and one of B, a film (which matches no pattern) and a file that is no video
FileSet == {File(NameA11, 1), File(NameA12, 1), File(NameA21, 0), File(NameB11, 1),
            File(NameFilm, 10), File(NameNfo, 1)}

\* the file lists of a torrent: up to MaxFiles files of distinct names
FileLists ==
    UNION {{fs \in [1..n -> FileSet] : \A i, j \in 1..n : i # j => fs[i] # fs[j]}
           : n \in 0..MaxFiles}

\* the destination at the start of a run: empty, or holding what an earlier run placed
Destinations ==
    {[files |-> {}, dirs |-> {}],
     [files |-> {TargetPath(NameFilm, DIR_FILM)}, dirs |-> {}],
     [files |-> {TargetPath(NameA11, SeasonPath(<<"A">>, <<"0", "1">>))},
      dirs  |-> {SeasonPath(<<"A">>, <<"0", "1">>)}]}

MkOutcomes == {"ok", "raise"}
CpOutcomes == {"ok", "fail", "partial"}
RmOutcomes == {"ok", "raise"}

(***************************************************************************)
(* The run of main as a state machine.                                     *)
(***************************************************************************)
VARIABLES pc, DRY_RUN, count, torrent, video_files, torrent_type, type_data,
          pending, moved, attempts, ids_to_remove, files, dirs, removed, exc, ret,
          removable,   \* history: the ids of the torrents that were finished and fully relocated
          shadow,      \* the dry run that is given the same answers as this run
          calls        \* history: the calls of move_torrent_file made one after the other

runVars == <<pc, DRY_RUN, count, torrent, video_files, torrent_type, type_data,
             pending, moved, attempts, ids_to_remove, files, dirs, removed, exc, ret>>

vars == <<runVars, removable, shadow, calls>>

State ==
    [pc |-> pc, DRY_RUN |-> DRY_RUN, count |-> count, torrent |-> torrent,
     video_files |-> video_files, torrent_type |-> torrent_type, type_data |-> type_data,
     pending |-> pending, moved |-> moved, attempts |-> attempts,
     ids_to_remove |-> ids_to_remove, files |-> files, dirs |-> dirs,
     removed |-> removed, exc |-> exc, ret |-> ret]

Assign(n) ==
    /\ pc' = n.pc /\ DRY_RUN' = n.DRY_RUN /\ count' = n.count /\ torrent' = n.torrent
    /\ video_files' = n.video_files /\ torrent_type' = n.torrent_type
    /\ type_data' = n.type_data /\ pending' = n.pending /\ moved' = n.moved
    /\ attempts' = n.attempts /\ ids_to_remove' = n.ids_to_remove /\ files' = n.files
    /\ dirs' = n.dirs /\ removed' = n.removed /\ exc' = n.exc /\ ret' = n.ret

NoShadow == InitialRun(TRUE, {}, {})

Init ==
    /\ \E dry \in BOOLEAN, d \in Destinations :
          LET s == InitialRun(dry, d.files, d.dirs)
          IN  /\ pc = s.pc /\ DRY_RUN = s.DRY_RUN /\ count = s.count /\ torrent = s.torrent
              /\ video_files = s.video_files /\ torrent_type = s.torrent_type
              /\ type_data = s.type_data /\ pending = s.pending /\ moved = s.moved
              /\ attempts = s.attempts /\ ids_to_remove = s.ids_to_remove
              /\ files = s.files /\ dirs = s.dirs /\ removed = s.removed
              /\ exc = s.exc /\ ret = s.ret
    /\ removable = {}
    /\ shadow = NoShadow
    /\ calls = <<>>

\* history: the torrent was complete and finished, at least one relocation was
\* made for it, every relocation made succeeded and none was left out
FullyRelocated(s, is_finished) ==
    /\ s.torrent.status \in {"seeding", "stopped"}
    /\ is_finished
    /\ Len(s.attempts) >= 1
    /\ \A k \in 1..Len(s.attempts) : s.attempts[k].ok
    /\ s.pending = <<>>

Connect ==
    /\ pc = "start"
    /\ \E connected \in BOOLEAN : Assign(main_connect(State, connected))
    /\ UNCHANGED <<removable, shadow, calls>>

NextTorrent ==
    /\ pc = "loop"
    /\ count < MaxTorrents
    /\ \E status \in TORRENT_STATUS : Assign(main_next_torrent(State, status))
    /\ UNCHANGED <<removable, shadow, calls>>

Check ==
    /\ pc = "check"
    /\ \E fs \in FileLists : Assign(main_check(State, fs))
    /\ UNCHANGED <<removable, shadow, calls>>

Relocate ==
    /\ pc = "relocate"
    /\ \E mk \in MkOutcomes, cp \in CpOutcomes : Assign(main_relocate(State, mk, cp))
    /\ UNCHANGED <<removable, shadow, calls>>

Finish ==
    /\ pc = "finish"
    /\ \E is_finished \in BOOLEAN :
          /\ Assign(main_finish(State, is_finished))
          /\ removable' = IF FullyRelocated(State, is_finished)
                          THEN removable \cup {torrent.id} ELSE removable
    /\ UNCHANGED <<shadow, calls>>

EndLoop ==
    /\ pc = "loop"
    /\ Assign(main_end_loop(State))
    /\ UNCHANGED <<removable, shadow, calls>>

Remove ==
    /\ pc = "remove"
    /\ \E rm \in RmOutcomes : Assign(main_remove(State, rm))
    /\ UNCHANGED <<removable, shadow, calls>>

Next == Connect \/ NextTorrent \/ Check \/ Relocate \/ Finish \/ EndLoop \/ Remove

Spec == Init /\ [][Next]_vars

(***************************************************************************)
(* The classifier on lists of files of every size up to MaxSize.           *)
(***************************************************************************)
InitSample ==
    /\ LET s == [InitialRun(FALSE, {}, {}) EXCEPT !.pc = "input"]
       IN  /\ pc = s.pc /\ DRY_RUN = s.DRY_RUN /\ count = s.count /\ torrent = s.torrent
           /\ video_files = s.video_files /\ torrent_type = s.torrent_type
           /\ type_data = s.type_data /\ pending = s.pending /\ moved = s.moved
           /\ attempts = s.attempts /\ ids_to_remove = s.ids_to_remove
           /\ files = s.files /\ dirs = s.dirs /\ removed = s.removed
           /\ exc = s.exc /\ ret = s.ret
    /\ removable = {}
    /\ shadow = NoShadow
    /\ calls = <<>>

\* one more video file in the list of the torrent: its name matches a pattern when
\* the names before it do
SampleInput ==
    /\ pc = "input"
    /\ Len(video_files) < MaxFiles
    /\ \E matching \in BOOLEAN, size \in 0..MaxSize :
          /\ (video_files # <<>> => matching = (video_files[1].name = EpisodeName(1)))
          /\ Assign([State EXCEPT !.video_files =
                        Append(@, File(SizedName(matching, Len(@) + 1), size))])
    /\ UNCHANGED <<removable, shadow, calls>>

\* get_torrent_type on them
SampleClassify ==
    /\ pc = "input"
    /\ Assign(Classified(State, video_files, get_torrent_type(video_files)))
    /\ UNCHANGED <<removable, shadow, calls>>

NextSample == SampleInput \/ SampleClassify

SpecSample == InitSample /\ [][NextSample]_vars

(***************************************************************************)
(* move_torrent_file called several times in a row.                        *)
(***************************************************************************)
MoveSources == {NameFilm, NameFilmBase, NameSample}

MoveDirs == {DIR_FILM, SeasonPath(<<"A">>, <<"0", "1">>)}

InitMove ==
    /\ \E dry \in BOOLEAN, fl \in SUBSET {TargetPath(NameFilm, DIR_FILM),
                                         TargetPath(NameSample, SeasonPath(<<"A">>, <<"0", "1">>))} :
          LET s == [InitialRun(dry, fl, {}) EXCEPT !.pc = "move"]
          IN  /\ pc = s.pc /\ DRY_RUN = s.DRY_RUN /\ count = s.count /\ torrent = s.torrent
              /\ video_files = s.video_files /\ torrent_type = s.torrent_type
              /\ type_data = s.type_data /\ pending = s.pending /\ moved = s.moved
              /\ attempts = s.attempts /\ ids_to_remove = s.ids_to_remove
              /\ files = s.files /\ dirs = s.dirs /\ removed = s.removed
              /\ exc = s.exc /\ ret = s.ret
    /\ removable = {}
    /\ shadow = NoShadow
    /\ calls = <<>>

\* history: one call, with whether the target existed and whether the destination changed
MoveRecord(fl, source_file, target_dir, mv) ==
    [source_file |-> source_file, target_dir |-> target_dir,
     existed |-> TargetPath(source_file, target_dir) \in fl,
     copied |-> mv.copied, ok |-> mv.ok, changed |-> mv.files # fl]

MoveResult(source_file, target_dir, mv) ==
    /\ files' = mv.files
    /\ moved' = mv.ok
    /\ calls' = Append(calls, MoveRecord(files, source_file, target_dir, mv))

MoveCall ==
    /\ pc = "move"
    /\ Len(calls) < MaxCalls
    /\ \E source_file \in MoveSources, target_dir \in MoveDirs, cp \in CpOutcomes :
          MoveResult(source_file, target_dir,
                     move_torrent_file(files, DRY_RUN, source_file, target_dir, cp))
    /\ UNCHANGED <<pc, DRY_RUN, count, torrent, video_files, torrent_type, type_data,
                   pending, attempts, ids_to_remove, dirs, removed, exc, ret,
                   removable, shadow>>

NextMove == MoveCall

SpecMove == InitMove /\ [][NextMove]_vars

(***************************************************************************)
(* A run and a dry run side by side: both start from the same destination  *)
(* and get the same answers from the remote client; in the run, every      *)
(* copy succeeds.  When an exception has ended the run, the dry run goes   *)
(* on alone.                                                               *)
(***************************************************************************)
InitPair ==
    /\ \E d \in Destinations :
          LET s == InitialRun(FALSE, d.files, d.dirs)
          IN  /\ pc = s.pc /\ DRY_RUN = s.DRY_RUN /\ count = s.count /\ torrent = s.torrent
              /\ video_files = s.video_files /\ torrent_type = s.torrent_type
              /\ type_data = s.type_data /\ pending = s.pending /\ moved = s.moved
              /\ attempts = s.attempts /\ ids_to_remove = s.ids_to_remove
              /\ files = s.files /\ dirs = s.dirs /\ removed = s.removed
              /\ exc = s.exc /\ ret = s.ret
              /\ shadow = InitialRun(TRUE, d.files, d.dirs)
    /\ removable = {}
    /\ calls = <<>>

\* the dry run is at p, and the run is at p too unless an exception has ended it
Both(p) == shadow.pc = p /\ pc \in {p, "raised"}

\* the step of the run, which an exception may have ended
Run(n) == IF pc = shadow.pc THEN Assign(n) ELSE UNCHANGED runVars

PairConnect ==
    /\ Both("start")
    /\ \E connected \in BOOLEAN :
          /\ Run(main_connect(State, connected))
          /\ shadow' = main_connect(shadow, connected)
    /\ UNCHANGED <<removable, calls>>

PairNextTorrent ==
    /\ Both("loop")
    /\ shadow.count < MaxTorrents
    /\ \E status \in TORRENT_STATUS :
          /\ Run(main_next_torrent(State, status))
          /\ shadow' = main_next_torrent(shadow, status)
    /\ UNCHANGED <<removable, calls>>

PairCheck ==
    /\ Both("check")
    /\ \E fs \in FileLists :
          /\ Run(main_check(State, fs))
          /\ shadow' = main_check(shadow, fs)
    /\ UNCHANGED <<removable, calls>>

PairRelocate ==
    /\ Both("relocate")
    /\ \E mk \in MkOutcomes :
          /\ Run(main_relocate(State, mk, "ok"))
          /\ shadow' = main_relocate(shadow, mk, "ok")
    /\ UNCHANGED <<removable, calls>>

PairFinish ==
    /\ Both("finish")
    /\ \E is_finished \in BOOLEAN :
          /\ Run(main_finish(State, is_finished))
          /\ shadow' = main_finish(shadow, is_finished)
    /\ UNCHANGED <<removable, calls>>

PairEndLoop ==
    /\ Both("loop")
    /\ Run(main_end_loop(State))
    /\ shadow' = main_end_loop(shadow)
    /\ UNCHANGED <<removable, calls>>

PairRemove ==
    /\ Both("remove")
    /\ \E rm \in RmOutcomes :
          /\ Run(main_remove(State, rm))
          /\ shadow' = main_remove(shadow, rm)
    /\ UNCHANGED <<removable, calls>>

NextPair ==
    \/ PairConnect \/ PairNextTorrent \/ PairCheck \/ PairRelocate
    \/ PairFinish \/ PairEndLoop \/ PairRemove

SpecPair == InitPair /\ [][NextPair]_vars

(***************************************************************************)
(* Properties of main (Spec).                                              *)
(***************************************************************************)
IdsToRemove == {ids_to_remove[k] : k \in 1..Len(ids_to_remove)}

\* the current torrent has been classified, and its type is t
TypeIs(t) == torrent_type = t

\* C1: a job id is in the removal set only if the job was seeding or stopped, was
\* reported finished, and every relocation attempted for it succeeded with none
\* left out; a stopped job that is not finished, a job of unknown type and a job
\* with no video file are never in it.
C1_RemovalOnlyWhenRelocated ==
    /\ IdsToRemove \subseteq removable
    /\ (pc = "loop" /\ torrent.id \in IdsToRemove) =>
          /\ torrent.status \in {"seeding", "stopped"}
          /\ torrent.is_finished
          /\ torrent_type \notin {"NONE", "UNKNOWN"}
          /\ video_files # <<>>
          /\ \A k \in 1..Len(attempts) : attempts[k].ok

\* C1: the second job was stopped, relocated with success and not finished, and is
\* not in the removal set, which holds the first job.
C1_Witness ==
    /\ pc = "loop" /\ count = 2
    /\ torrent.status = "stopped" /\ moved /\ ~torrent.is_finished
    /\ ids_to_remove = <<1>>

\* C2: after the connection, no failure while a job is classified or relocated
\* ends the run: no exception of the classifier or of the file system leaves main.
C2_RunCompletes ==
    /\ exc \notin {"TypeError", "ZeroDivisionError", "OSError"}
    /\ pc = "done" => ret = 0

AllMatch(vfs) == \A k \in 1..Len(vfs) : get_episode_data(vfs[k].name).matched

\* is_movie_with_sample returned False for the video files
NotFlagged(vfs) ==
    is_movie_with_sample(vfs).raised = "none" /\ ~is_movie_with_sample(vfs).value

\* C3: a job of two or more video files that is not flagged movie-with-sample and
\* has a file matching no pattern is of type Unknown with no data, and is neither
\* relocated nor removed.
C3_UnmatchedFileIsUnknown ==
    (Len(video_files) >= 2 /\ NotFlagged(video_files) /\ ~AllMatch(video_files)) =>
        /\ TypeIs("UNKNOWN")
        /\ type_data = NoData
        /\ attempts = <<>>
        /\ torrent.id \notin IdsToRemove

\* the show names and the season numbers of the video files
ShowNames(vfs) == {get_episode_data(vfs[k].name).series_name : k \in 1..Len(vfs)}

SeasonOf(name) == get_episode_data(name).season_num

SeasonNums(vfs) == {SeasonOf(vfs[k].name) : k \in 1..Len(vfs)}

\* the names of the files of one season, in the order of the list
NamesOfSeason(vfs, season) ==
    LET of_season == SelectSeq(vfs, LAMBDA f : SeasonOf(f.name) = season)
    IN  [k \in 1..Len(of_season) |-> of_season[k].name]

\* each season key holds the episodes of that season in the order of the list
GroupedInOrder(vfs, seasons) ==
    /\ {seasons[k].season : k \in 1..Len(seasons)} = SeasonNums(vfs)
    /\ \A k \in 1..Len(seasons) :
          [e \in 1..Len(seasons[k].episodes) |-> seasons[k].episodes[e].filename]
             = NamesOfSeason(vfs, seasons[k].season)

\* C6: a job of two or more video files that is not flagged movie-with-sample and
\* whose files all match a pattern is Unknown when the files carry two show names;
\* otherwise it is Season when they have one two-digit season number and Series
\* when they have more, each season key holding its episodes in input order.
C6_SeriesGrouping ==
    (/\ torrent_type # "NONE"
     /\ Len(video_files) >= 2 /\ NotFlagged(video_files) /\ AllMatch(video_files)) =>
        IF Cardinality(ShowNames(video_files)) >= 2
        THEN TypeIs("UNKNOWN") /\ type_data = NoData
        ELSE /\ TypeIs(IF Cardinality(SeasonNums(video_files)) = 1 THEN "SEASON" ELSE "SERIES")
             /\ type_data.ok
             /\ type_data.series_name \in ShowNames(video_files)
             /\ GroupedInOrder(video_files, type_data.seasons)

\* C6: a Series whose file list puts an episode of a second season between two
\* episodes of the first.
C6_Witness ==
    /\ TypeIs("SERIES") /\ Len(video_files) = 3
    /\ SeasonOf(video_files[1].name) = SeasonOf(video_files[3].name)
    /\ SeasonOf(video_files[1].name) # SeasonOf(video_files[2].name)
    /\ SeasonOf(video_files[1].name) = <<"0", "1">>

\* a relocation of the current Season or Series job has failed
EpisodeFailed ==
    /\ torrent_type \in {"SEASON", "SERIES"}
    /\ \E k \in 1..Len(attempts) : ~attempts[k].ok

\* C8: for a Season or Series job, after the first relocation that fails no more
\* relocation is attempted for the job, the job is not added to the removal set,
\* and the run goes on with the jobs that follow.
C8_AbortAfterFailure ==
    EpisodeFailed =>
        /\ \A k \in 1..(Len(attempts) - 1) : attempts[k].ok
        /\ pc \in {"finish", "loop", "remove", "done", "raised"}
        /\ pc = "raised" => exc = "TransmissionError"
        /\ ~moved
        /\ torrent.id \notin IdsToRemove

\* C8: an episode failed with episodes left, the job is over and not in the
\* removal set, and the next job is about to be taken.
C8_Witness ==
    /\ EpisodeFailed /\ pending # <<>>
    /\ pc = "loop" /\ count < MaxTorrents
    /\ TypeIs("SERIES")

\* the position of a video file in the file list of the job
Pos(name) == CHOOSE k \in 1..Len(video_files) : video_files[k].name = name

\* the position of the first file of the season of a video file
FirstOfSeason(name) ==
    CHOOSE k \in 1..Len(video_files) :
        /\ SeasonOf(video_files[k].name) = SeasonOf(name)
        /\ \A j \in 1..(k - 1) : SeasonOf(video_files[j].name) # SeasonOf(name)

\* C9 as stated: of two files of a Season or Series job that are both relocated,
\* the one listed earlier in the file list is relocated first.
C9_ListOrder ==
    torrent_type \in {"SEASON", "SERIES"} =>
        \A i, j \in 1..Len(attempts) :
            i < j => Pos(attempts[i].filename) < Pos(attempts[j].filename)

\* C9, amended: the files of a Season or Series job are relocated season by season,
\* the seasons in the order of their first file in the list, and the files of one
\* season in the order of the list.
C9_SeasonOrder ==
    torrent_type \in {"SEASON", "SERIES"} =>
        \A i, j \in 1..Len(attempts) :
            i < j =>
               \/ FirstOfSeason(attempts[i].filename) < FirstOfSeason(attempts[j].filename)
               \/ /\ FirstOfSeason(attempts[i].filename) = FirstOfSeason(attempts[j].filename)
                  /\ Pos(attempts[i].filename) < Pos(attempts[j].filename)

\* C9: the three files of a Series whose second file is of another season than the
\* first and the third have all been relocated.
C9_Witness ==
    /\ TypeIs("SERIES") /\ Len(video_files) = 3 /\ Len(attempts) = 3
    /\ SeasonOf(video_files[1].name) = SeasonOf(video_files[3].name)
    /\ SeasonOf(video_files[1].name) # SeasonOf(video_files[2].name)

(***************************************************************************)
(* Properties of the classifier (SpecSample).                              *)
(***************************************************************************)
\* get_torrent_type has been applied to video_files
TypeComputed == pc # "input"

\* m >= 90 for positive s0, where d = (s1 - s0) / s0 * 100 and m is -d when
\* d < 0, d / 10 when d > 100 and d otherwise: the second file is at most a tenth
\* of the first, or at least ten times the first, or between 1.9 and 2 times it
MagnitudeAtLeast90(s0, s1) ==
    \/ 10 * s1 <= s0
    \/ s1 >= 10 * s0
    \/ (19 * s0 <= 10 * s1 /\ s1 <= 2 * s0)

\* C4: a job of exactly two video files of sizes s0 and s1 is MovieWithSample if
\* and only if m >= 90 (d being defined, that is s0 > 0); a job whose number of
\* video files is not two is never MovieWithSample.
C4_SampleIffMagnitude ==
    TypeComputed =>
        /\ (Len(video_files) = 2 /\ video_files[1].size > 0) =>
              (TypeIs("MOVIE_WITH_SAMPLE")
                 <=> MagnitudeAtLeast90(video_files[1].size, video_files[2].size))
        /\ Len(video_files) # 2 => ~TypeIs("MOVIE_WITH_SAMPLE")

\* C4: two files, the second ten times the first (d = 900, m = 90), classified
\* MovieWithSample.
C4_Witness ==
    /\ TypeComputed /\ Len(video_files) = 2
    /\ video_files[1].size = 2 /\ video_files[2].size = 20
    /\ TypeIs("MOVIE_WITH_SAMPLE")

\* the two video files in the other order
Swapped(vfs) == <<vfs[2], vfs[1]>>

PositivePair ==
    /\ TypeComputed /\ Len(video_files) = 2
    /\ video_files[1].size > 0 /\ video_files[2].size > 0

\* the smaller size a and the larger size b of the pair
MinSize == IF video_files[1].size <= video_files[2].size
           THEN video_files[1].size ELSE video_files[2].size

MaxSizeOfPair == IF video_files[1].size <= video_files[2].size
                 THEN video_files[2].size ELSE video_files[1].size

\* C10 as stated: for two positive sizes, is_movie_with_sample gives the same
\* answer for the file list (a, b) as for (b, a).
C10_OrderIndependent ==
    PositivePair =>
        (TypeIs("MOVIE_WITH_SAMPLE") <=> is_movie_with_sample(Swapped(video_files)).value)

\* the larger size is between 1.9 and 2 times the smaller
NearDouble == 19 * MinSize <= 10 * MaxSizeOfPair /\ MaxSizeOfPair <= 2 * MinSize

\* C10, amended: for positive sizes a <= b, the answers for (a, b) and (b, a) are
\* the same unless 1.9 a <= b <= 2 a, when (a, b) is a movie with sample and
\* (b, a) is not; both are when b >= 10 a, and none is otherwise.
C10_OrderMatters ==
    PositivePair =>
        /\ is_movie_with_sample(Swapped(video_files)).raised = "none"
        /\ IF NearDouble
           THEN (TypeIs("MOVIE_WITH_SAMPLE") <=> video_files[1].size = MinSize)
                /\ (is_movie_with_sample(Swapped(video_files)).value
                      <=> video_files[2].size = MinSize)
           ELSE /\ TypeIs("MOVIE_WITH_SAMPLE") <=> (MaxSizeOfPair >= 10 * MinSize)
                /\ is_movie_with_sample(Swapped(video_files)).value
                      <=> (MaxSizeOfPair >= 10 * MinSize)

\* C10: sizes (10, 19): a movie with sample, which (19, 10) is not.
C10_Witness ==
    /\ PositivePair
    /\ video_files[1].size = 10 /\ video_files[2].size = 19
    /\ TypeIs("MOVIE_WITH_SAMPLE")
    /\ ~is_movie_with_sample(Swapped(video_files)).value

(***************************************************************************)
(* Properties of move_torrent_file (SpecMove).                             *)
(***************************************************************************)
\* calls k and k + 1 relocate the same file to the same directory
SameTwice(k) ==
    /\ calls[k].source_file = calls[k + 1].source_file
    /\ calls[k].target_dir = calls[k + 1].target_dir

\* when a file of the same base name is in the destination directory, the call
\* returns success, does not copy and leaves the destination as it is
SkipsExisting ==
    \A k \in 1..Len(calls) :
        calls[k].existed => (calls[k].ok /\ ~calls[k].copied /\ ~calls[k].changed)

\* C7 as stated: an existing target is skipped with success; so relocating the
\* same file to the same directory twice in a row copies at most once and both
\* calls return success.
C7_TwiceSucceeds ==
    /\ SkipsExisting
    /\ \A k \in 1..(Len(calls) - 1) :
          SameTwice(k) =>
             /\ calls[k].ok /\ calls[k + 1].ok
             /\ ~(calls[k].copied /\ calls[k + 1].copied)

\* C7, amended: an existing target is skipped with success; so when a relocation
\* has returned success, relocating the same file to the same directory again
\* returns success without copying.
C7_TwiceAfterSuccess ==
    /\ SkipsExisting
    /\ \A k \in 1..(Len(calls) - 1) :
          (SameTwice(k) /\ calls[k].ok) => (calls[k + 1].ok /\ ~calls[k + 1].copied)

\* C7: the same file relocated twice to the same directory: the first call copied
\* it, the second found it there.
C7_Witness ==
    /\ Len(calls) >= 2 /\ SameTwice(1)
    /\ calls[1].copied /\ calls[1].ok
    /\ calls[2].existed /\ calls[2].ok /\ ~calls[2].copied

(***************************************************************************)
(* Properties of the dry run (SpecPair).                                   *)
(***************************************************************************)
\* the dry run created no directory, copied no file and sent no removal
DryRunHasNoEffect ==
    /\ \A k \in 1..Len(shadow.attempts) :
          ~shadow.attempts[k].copied /\ ~shadow.attempts[k].created
    /\ shadow.removed = <<>>

\* the success values of the relocations of the current job
Successes(s) == [k \in 1..Len(s.attempts) |-> s.attempts[k].ok]

\* C5: a dry run has no effect, and the type of each job, the success value of
\* each relocation and the removal set are those of a run that starts from the
\* same state and in which every copy succeeds.
C5_DryRunAgrees ==
    /\ DryRunHasNoEffect
    /\ shadow.count = count =>
          /\ shadow.torrent_type = torrent_type
          /\ Successes(shadow) = Successes(State)
    /\ shadow.pc = "done" => shadow.ids_to_remove = ids_to_remove

=============================================================================
